---- MODULE Spec2Model ----
(***************************************************************************)
(* Interrupt-driven UART ring buffer driver (Core/Src/uart_ring_buffer.c). *)
(*                                                                         *)
(* Two execution contexts share rx_buffer and tx_buffer without a lock:    *)
(*   - the interrupt context, UART_ISR_Handler, which runs to completion   *)
(*     (the foreground cannot preempt it), so it is one atomic action;     *)
(*   - the foreground, which the interrupt can preempt between any two     *)
(*     accesses to shared (volatile) data, so every foreground function is *)
(*     split into steps with at most one access to data the interrupt      *)
(*     context writes (rx head, tx tail, CR1, the tick).                   *)
(* The foreground position is pc, with a stack of return labels for the    *)
(* nested calls (UART_SendString -> UART_WriteChar, UART_WaitForString ->   *)
(* WaitForData / UART_ReadChar ...).                                       *)
(***************************************************************************)
EXTENDS Integers, Sequences, FiniteSets

\* ------------------------------------------------------------------ bounds
\* UART_BUFFER_SIZE is 1024 in the source; the model scales it down.
UART_BUFFER_SIZE == 3
\* Bytes received from the line during one run (stored or dropped).
MaxRx == 4
\* Bytes enqueued for transmission during one run.
MaxTx == 3
\* Milliseconds the tick advances during one run.
MaxTick == 3
\* DEFAULT_TIMEOUT_MS is 500 in the source; the model scales it down.
DEFAULT_TIMEOUT_MS == 2
\* Longest string passed to UART_SendString.
MaxStr == 2
\* Bytes received from the line during one run of the streaming functions.
MaxFeed == 3
\* Calls of UART_WaitForString / UART_CopyUntil during one run.
MaxCalls == 1
\* Longest source string passed to UART_ExtractBetween.
MaxSrc == 4
\* Longest pattern and longest byte stream given to the matcher alone.
MaxMatch == 3
MaxStream == 4
\* Longest pattern passed to UART_WaitForString and UART_CopyUntil.
MaxPat == 2
\* Largest destination size passed to UART_CopyUntil.
MaxCap == 4

\* ------------------------------------------------------- program constants
UART_SUCCESS == 0
UART_ERROR_TIMEOUT == -1
UART_ERROR_BUFFER_FULL == -2
UART_ERROR_BUFFER_EMPTY == -3
UART_ERROR_INVALID_PARAM == -4
UART_ERROR_NOT_FOUND == -5

\* uint8_t values the model distinguishes: 0 (what memset writes, and the
\* string terminator) and two non-zero characters.
Byte == {0, 1, 2}
\* Non-zero characters (the contents of C strings).
Char == Byte \ {0}
\* No value yet (a foreground call that has not returned, *c not written).
None == -99

\* HAL_GetTick() is a uint32_t; the model keeps a narrower counter with the
\* same wrap-around arithmetic, started two ticks before the wrap so that
\* both wrapped and unwrapped differences occur.
TickMod == 16
TickStart == TickMod - 2

Index == 0 .. (UART_BUFFER_SIZE - 1)

\* RingBuffer_TypeDef {uint8_t buffer[UART_BUFFER_SIZE]; head; tail}
RingBuffer_TypeDef == [buffer : [Index -> Byte], head : Index, tail : Index]

\* static RingBuffer_TypeDef rx_buffer = {{0}, 0, 0};
EmptyRing == [buffer |-> [i \in Index |-> 0], head |-> 0, tail |-> 0]

VARIABLES
    rx_buffer,      \* RX ring: the ISR produces, the foreground consumes
    tx_buffer,      \* TX ring: the foreground produces, the ISR consumes
    timeout_start,  \* static volatile uint32_t timeout_start
    tick,           \* HAL_GetTick()
    cr1,            \* enabled interrupt sources of USART CR1
    primask,        \* TRUE between __disable_irq() and __enable_irq()
    pc,             \* foreground position ("idle": no driver call running)
    stack,          \* return labels of the nested foreground calls
    op,             \* the public function called last from application code
    ret_val,        \* value returned by the last foreground call that returned
    loc,            \* arguments and locals of the running foreground call
    isr_ret,        \* value StoreChar returned to the ISR last (discarded there)
    rx_in,          \* number of bytes the ISR has read from RDR
    rx_stored,      \* history: bytes StoreChar stored since the last flush
    rx_read,        \* history: bytes UART_ReadChar returned since the last flush
    rx_flushed,     \* history: unread bytes the last UART_FlushRX discarded
    peeked,         \* history: byte of a successful UART_Peek, kept while the
                    \* next foreground call is a UART_ReadChar
    tx_enq,         \* history: bytes UART_WriteChar published (head advanced)
    tx_wire,        \* history: bytes the ISR wrote to TDR
    tx_irq,         \* history: number of TX-ready interrupts the ISR handled
    snap,           \* history: the TX ring and tx_enq when the running (or
                    \* last) UART_WriteChar was entered
    calls           \* history: calls of the streaming functions so far

vars == <<rx_buffer, tx_buffer, timeout_start, tick, cr1, primask, pc, stack,
          op, ret_val, loc, isr_ret, rx_in, rx_stored, rx_read, rx_flushed,
          peeked, tx_enq, tx_wire, tx_irq, snap, calls>>

rxh == <<isr_ret, rx_in, rx_stored, rx_read, rx_flushed>>
txh == <<tx_enq, tx_wire, tx_irq, snap>>
hist == <<rxh, peeked, txh, calls>>

\* ----------------------------------------------------------------- helpers

\* Bytes a ring holds, oldest first: the slots tail, tail+1, ... head-1.
Pending(rb) ==
    LET n == (UART_BUFFER_SIZE + rb.head - rb.tail) % UART_BUFFER_SIZE
    IN  [k \in 1 .. n |-> rb.buffer[(rb.tail + k - 1) % UART_BUFFER_SIZE]]

IsPrefix(s, t) == Len(s) <= Len(t) /\ SubSeq(t, 1, Len(s)) = s

IsSuffix(s, t) ==
    Len(s) <= Len(t) /\ SubSeq(t, Len(t) - Len(s) + 1, Len(t)) = s

\* Does s occur in t as a run of consecutive elements?
Occurs(s, t) ==
    \E k \in 0 .. (Len(t) - Len(s)) : SubSeq(t, k + 1, k + Len(s)) = s

\* uint16_t UART_Available(void)
UART_Available ==
    (UART_BUFFER_SIZE + rx_buffer.head - rx_buffer.tail) % UART_BUFFER_SIZE

\* StoreChar with the byte written to the slot after head (off by one).
StoreChar_WrongSlot(c, buffer) ==
    LET next_head == (buffer.head + 1) % UART_BUFFER_SIZE
    IN  IF next_head = buffer.tail
        THEN [buffer |-> buffer, ret |-> UART_ERROR_BUFFER_FULL]
        ELSE [buffer |-> [buffer EXCEPT !.buffer[next_head] = c,
                                         !.head = next_head],
              ret |-> UART_SUCCESS]

\* StoreChar without the overflow check: a full ring is overwritten.
StoreChar_NoFullCheck(c, buffer) ==
    LET next_head == (buffer.head + 1) % UART_BUFFER_SIZE
    IN  [buffer |-> [buffer EXCEPT !.buffer[buffer.head] = c,
                                    !.head = next_head],
         ret |-> UART_SUCCESS]

\* static UART_ErrorTypeDef StoreChar(uint8_t c, RingBuffer_TypeDef *buffer):
\* the ring after the call and the value returned.
StoreChar(c, buffer) ==
    LET next_head == (buffer.head + 1) % UART_BUFFER_SIZE
    IN  IF next_head = buffer.tail
        THEN [buffer |-> buffer, ret |-> UART_ERROR_BUFFER_FULL]
        ELSE [buffer |-> [buffer EXCEPT !.buffer[buffer.head] = c,
                                         !.head = next_head],
              ret |-> UART_SUCCESS]

\* static bool IsTimeOutExpired(uint32_t timeout_ms): unsigned difference.
IsTimeOutExpired(timeout_ms) ==
    ((tick - timeout_start) % TickMod) >= timeout_ms

\* Arguments and locals of a foreground call before it starts.
\* str, str_null: the string argument (str, end_str) and whether it is NULL;
\* buffer, buffer_null, buffer_size: the destination of UART_CopyUntil;
\* oob: a write went past the destination's end;  enq0, rd0, st0: lengths of
\* tx_enq, rx_read and rx_stored when the function was entered.
Loc0 == [c |-> None, c_null |-> FALSE, next_head |-> 0,
         str |-> <<>>, str_null |-> FALSE, i |-> 1, enq0 |-> 0,
         timeout_ms |-> 0, match_pos |-> 0, rd0 |-> 0, st0 |-> 0,
         buffer |-> <<>>, buffer_null |-> FALSE, buffer_size |-> 0,
         buffer_pos |-> 0, oob |-> FALSE,
         start_str |-> <<>>, start_null |-> FALSE,
         source |-> <<>>, source_null |-> FALSE, progress |-> 0]

\* What a destination cell holds before anything is written to it.
Garbage == -1

\* Timeouts the application passes (0: no waiting at all).
Timeouts == {0, 2}

\* The values a read of str[i] (0-based) can produce: a character of the
\* string, its terminator, or anything for a read past the terminator.
StrRead(str, i) ==
    IF i < Len(str) THEN {str[i + 1]}
    ELSE IF i = Len(str) THEN {0}
    ELSE Byte

\* Variant: the comparison with str[0] comes first.
MatchNext_FirstCharFirst(str, match_pos, c, e) ==
    IF c \in StrRead(str, 0) THEN 1
    ELSE IF c = e THEN match_pos + 1
    ELSE 0

\* Variant: a mismatching byte leaves match_pos where it was.
MatchNext_KeepOnMismatch(str, match_pos, c, e) ==
    IF c = e THEN match_pos + 1
    ELSE IF c \in StrRead(str, 0) THEN 1
    ELSE match_pos

\* The match_pos update of UART_WaitForString and UART_CopyUntil for the
\* byte c, where e is the value read from str[match_pos]:
\*   if (c == str[match_pos]) match_pos++;
\*   else if (c == str[0]) match_pos = 1; else match_pos = 0;
MatchNext(str, match_pos, c, e) ==
    IF c = e THEN match_pos + 1
    ELSE IF c \in StrRead(str, 0) THEN 1
    ELSE 0

\* buffer[i] = v for a destination of buffer_size cells (0-based i).
WriteAt(l, i, v) ==
    IF i < l.buffer_size
    THEN [l EXCEPT !.buffer[i + 1] = v]
    ELSE [l EXCEPT !.oob = TRUE]

\* static void ResetTimeout(void): the new value of timeout_start.
ResetTimeout == tick

\* C strings of at most n characters.
Strings(n) == UNION {[1 .. k -> Char] : k \in 0 .. n}

\* A foreground function returns v: to its caller's return label, or to the
\* application ("idle").
Return(v) ==
    /\ ret_val' = v
    /\ IF stack = <<>>
       THEN pc' = "idle" /\ stack' = stack
       ELSE pc' = Head(stack) /\ stack' = Tail(stack)

\* ------------------------------------------------------------------- Init
\* The state after UART_RingBuff_Init(): both rings cleared, the RXNE
\* interrupt enabled, the TXE interrupt not yet enabled.
Init ==
    /\ rx_buffer = EmptyRing
    /\ tx_buffer = EmptyRing
    /\ timeout_start = 0
    /\ tick = TickStart
    /\ cr1 = {"RXNEIE"}
    /\ primask = FALSE
    /\ pc = "idle"
    /\ stack = <<>>
    /\ op = "none"
    /\ ret_val = None
    /\ loc = Loc0
    /\ isr_ret = None
    /\ rx_in = 0
    /\ rx_stored = <<>>
    /\ rx_read = <<>>
    /\ rx_flushed = 0
    /\ peeked = None
    /\ tx_enq = <<>>
    /\ tx_wire = <<>>
    /\ tx_irq = 0
    /\ snap = [tx |-> EmptyRing, enq |-> <<>>]
    /\ calls = 0

\* -------------------------------------------------------- interrupt context

\* The millisecond tick (SysTick interrupt): masked by __disable_irq().
Tick ==
    /\ ~primask
    /\ ((tick - TickStart) % TickMod) < MaxTick
    /\ tick' = (tick + 1) % TickMod
    /\ UNCHANGED <<rx_buffer, tx_buffer, timeout_start, cr1, primask, pc,
                   stack, op, ret_val, loc, hist>>

\* The handler with tail advanced before the TX slot is read.
UART_ISR_Handler_TailFirst(rxne, ch, txe) ==
    LET rx_taken == rxne /\ "RXNEIE" \in cr1
        tx_taken == txe /\ "TXEIE" \in cr1
        stored   == StoreChar(ch, rx_buffer)
        tx_empty == tx_buffer.head = tx_buffer.tail
    IN  /\ ~primask
        /\ rx_taken \/ tx_taken
        \* Handle RX interrupt
        /\ IF rx_taken
           THEN /\ rx_buffer' = stored.buffer
                /\ isr_ret' = stored.ret
                /\ rx_in' = rx_in + 1
                /\ rx_stored' = IF stored.ret = UART_SUCCESS
                                THEN Append(rx_stored, ch) ELSE rx_stored
           ELSE UNCHANGED <<rx_buffer, isr_ret, rx_in, rx_stored>>
        \* Handle TX interrupt
        /\ tx_irq' = IF tx_taken THEN tx_irq + 1 ELSE tx_irq
        /\ IF tx_taken
           THEN IF tx_empty
                THEN /\ cr1' = cr1 \ {"TXEIE"}
                     /\ UNCHANGED <<tx_buffer, tx_wire>>
                ELSE /\ tx_buffer' = [tx_buffer EXCEPT
                            !.tail = (tx_buffer.tail + 1) % UART_BUFFER_SIZE]
                     /\ tx_wire' = Append(tx_wire,
                            tx_buffer.buffer[(tx_buffer.tail + 1)
                                              % UART_BUFFER_SIZE])
                     /\ UNCHANGED cr1
           ELSE UNCHANGED <<tx_buffer, tx_wire, cr1>>
        /\ UNCHANGED <<timeout_start, tick, primask, pc, stack, op, ret_val,
                       loc, rx_read, rx_flushed, peeked, tx_enq, snap,
                       calls>>

\* void UART_ISR_Handler(UART_HandleTypeDef *huart), entered for huart2 with
\* the status flags rxne (a received byte ch waits in RDR) and txe (TDR is
\* free).  The interrupt is taken only while interrupts are not masked and an
\* enabled source is pending.
UART_ISR_Handler(rxne, ch, txe) ==
    LET rx_taken == rxne /\ "RXNEIE" \in cr1
        tx_taken == txe /\ "TXEIE" \in cr1
        stored   == StoreChar(ch, rx_buffer)
        tx_empty == tx_buffer.head = tx_buffer.tail
    IN  /\ ~primask
        /\ rx_taken \/ tx_taken
        \* Handle RX interrupt
        /\ IF rx_taken
           THEN /\ rx_buffer' = stored.buffer
                /\ isr_ret' = stored.ret
                /\ rx_in' = rx_in + 1
                /\ rx_stored' = IF stored.ret = UART_SUCCESS
                                THEN Append(rx_stored, ch) ELSE rx_stored
           ELSE UNCHANGED <<rx_buffer, isr_ret, rx_in, rx_stored>>
        \* Handle TX interrupt
        /\ tx_irq' = IF tx_taken THEN tx_irq + 1 ELSE tx_irq
        /\ IF tx_taken
           THEN IF tx_empty
                THEN /\ cr1' = cr1 \ {"TXEIE"}
                     /\ UNCHANGED <<tx_buffer, tx_wire>>
                ELSE /\ tx_buffer' = [tx_buffer EXCEPT
                            !.tail = (tx_buffer.tail + 1) % UART_BUFFER_SIZE]
                     /\ tx_wire' = Append(tx_wire,
                                          tx_buffer.buffer[tx_buffer.tail])
                     /\ UNCHANGED cr1
           ELSE UNCHANGED <<tx_buffer, tx_wire, cr1>>
        /\ UNCHANGED <<timeout_start, tick, primask, pc, stack, op, ret_val,
                       loc, rx_read, rx_flushed, peeked, tx_enq, snap,
                       calls>>

ISR == \E rxne \in BOOLEAN, ch \in Byte, txe \in BOOLEAN :
            /\ rxne => rx_in < MaxRx
            /\ UART_ISR_Handler(rxne, ch, txe)

\* The handler entered for a received text byte while TDR is busy (TXE clear).
ISR_RxReady ==
    /\ rx_in < MaxFeed
    /\ \E ch \in Char : UART_ISR_Handler(TRUE, ch, FALSE)

\* The handler entered with any combination of RXNE and TXE, for text bytes.
ISR_Flags ==
    \E rxne \in BOOLEAN, ch \in Char, txe \in BOOLEAN :
        /\ rxne => rx_in < MaxFeed
        /\ UART_ISR_Handler(rxne, ch, txe)

\* The handler entered while the line delivers nothing (RXNE clear).
ISR_TxReady == UART_ISR_Handler(FALSE, 0, TRUE)

\* ------------------------------------------------------- foreground: calls

\* Application code calls a public function: op names it, the arguments are
\* in loc, and the function's first step is at `entry`.
Call(name, entry, args) ==
    /\ pc = "idle"
    /\ pc' = entry
    /\ op' = name
    /\ loc' = args
    /\ ret_val' = None
    /\ peeked' = IF op = "UART_Peek" /\ name = "UART_ReadChar"
                 THEN peeked ELSE None
    /\ calls' = IF name \in {"UART_WaitForString", "UART_CopyUntil",
                            "UART_ExtractBetween", "match_pos"}
                THEN calls + 1 ELSE calls
    /\ UNCHANGED <<rx_buffer, tx_buffer, timeout_start, tick, cr1, primask,
                   stack, rxh, txh>>

Call_ReadChar ==
    \E n \in BOOLEAN : Call("UART_ReadChar", "rc_entry", [Loc0 EXCEPT !.c_null = n])

Call_Peek ==
    \E n \in BOOLEAN : Call("UART_Peek", "pk_entry", [Loc0 EXCEPT !.c_null = n])

Call_Available == Call("UART_Available", "av_entry", Loc0)

\* ------------------------------------------------- foreground: UART_ReadChar

\* UART_ReadChar without the emptiness check.
rc_entry_NoEmptyCheck ==
    /\ pc = "rc_entry"
    /\ IF loc.c_null
       THEN Return(UART_ERROR_INVALID_PARAM)
       ELSE pc' = "rc_load" /\ UNCHANGED <<stack, ret_val>>
    /\ UNCHANGED <<rx_buffer, tx_buffer, timeout_start, tick, cr1, primask,
                   op, loc, hist>>

\* if (c == NULL) return INVALID_PARAM; if (head == tail) return BUFFER_EMPTY;
rc_entry ==
    /\ pc = "rc_entry"
    /\ IF loc.c_null
       THEN Return(UART_ERROR_INVALID_PARAM)
       ELSE IF rx_buffer.head = rx_buffer.tail
            THEN Return(UART_ERROR_BUFFER_EMPTY)
            ELSE pc' = "rc_load" /\ UNCHANGED <<stack, ret_val>>
    /\ UNCHANGED <<rx_buffer, tx_buffer, timeout_start, tick, cr1, primask,
                   op, loc, hist>>

\* *c = rx_buffer.buffer[rx_buffer.tail];
rc_load ==
    /\ pc = "rc_load"
    /\ loc' = [loc EXCEPT !.c = rx_buffer.buffer[rx_buffer.tail]]
    /\ pc' = "rc_adv"
    /\ UNCHANGED <<rx_buffer, tx_buffer, timeout_start, tick, cr1, primask,
                   stack, op, ret_val, hist>>

\* Variant: a read that empties the ring rewinds both indices to 0.
rc_adv_RewindWhenEmpty ==
    /\ pc = "rc_adv"
    /\ rx_buffer' = IF (rx_buffer.tail + 1) % UART_BUFFER_SIZE = rx_buffer.head
                    THEN [rx_buffer EXCEPT !.head = 0, !.tail = 0]
                    ELSE [rx_buffer EXCEPT
                             !.tail = (rx_buffer.tail + 1) % UART_BUFFER_SIZE]
    /\ rx_read' = Append(rx_read, loc.c)
    /\ Return(UART_SUCCESS)
    /\ UNCHANGED <<tx_buffer, timeout_start, tick, cr1, primask, op, loc,
                   isr_ret, rx_in, rx_stored, rx_flushed, peeked, txh, calls>>

\* rx_buffer.tail = (rx_buffer.tail + 1) % UART_BUFFER_SIZE; return SUCCESS;
rc_adv ==
    /\ pc = "rc_adv"
    /\ rx_buffer' = [rx_buffer EXCEPT
                        !.tail = (rx_buffer.tail + 1) % UART_BUFFER_SIZE]
    /\ rx_read' = Append(rx_read, loc.c)
    /\ Return(UART_SUCCESS)
    /\ UNCHANGED <<tx_buffer, timeout_start, tick, cr1, primask, op, loc,
                   isr_ret, rx_in, rx_stored, rx_flushed, peeked, txh, calls>>

\* ----------------------------------------------------- foreground: UART_Peek

pk_entry ==
    /\ pc = "pk_entry"
    /\ IF loc.c_null
       THEN Return(UART_ERROR_INVALID_PARAM)
       ELSE IF rx_buffer.head = rx_buffer.tail
            THEN Return(UART_ERROR_BUFFER_EMPTY)
            ELSE pc' = "pk_load" /\ UNCHANGED <<stack, ret_val>>
    /\ UNCHANGED <<rx_buffer, tx_buffer, timeout_start, tick, cr1, primask,
                   op, loc, hist>>

\* UART_Peek reading the slot at head instead of the slot at tail.
pk_load_AtHead ==
    /\ pc = "pk_load"
    /\ loc' = [loc EXCEPT !.c = rx_buffer.buffer[rx_buffer.head]]
    /\ peeked' = rx_buffer.buffer[rx_buffer.head]
    /\ Return(UART_SUCCESS)
    /\ UNCHANGED <<rx_buffer, tx_buffer, timeout_start, tick, cr1, primask,
                   op, rxh, txh, calls>>

\* *c = rx_buffer.buffer[rx_buffer.tail]; return SUCCESS;
pk_load ==
    /\ pc = "pk_load"
    /\ loc' = [loc EXCEPT !.c = rx_buffer.buffer[rx_buffer.tail]]
    /\ peeked' = rx_buffer.buffer[rx_buffer.tail]
    /\ Return(UART_SUCCESS)
    /\ UNCHANGED <<rx_buffer, tx_buffer, timeout_start, tick, cr1, primask,
                   op, rxh, txh, calls>>

\* ------------------------------------------------ foreground: UART_Available

av_entry ==
    /\ pc = "av_entry"
    /\ Return(UART_Available)
    /\ UNCHANGED <<rx_buffer, tx_buffer, timeout_start, tick, cr1, primask,
                   op, loc, hist>>

\* -------------------------------------------------- foreground: UART_FlushRX

Call_FlushRX == Call("UART_FlushRX", "fl_disable", Loc0)

\* UART_FlushRX without the __disable_irq().
fl_disable_NoMask ==
    /\ pc = "fl_disable"
    /\ pc' = "fl_head"
    /\ UNCHANGED <<rx_buffer, tx_buffer, timeout_start, tick, cr1, primask,
                   stack, op, ret_val, loc, hist>>

\* __disable_irq();
fl_disable ==
    /\ pc = "fl_disable"
    /\ primask' = TRUE
    /\ pc' = "fl_head"
    /\ UNCHANGED <<rx_buffer, tx_buffer, timeout_start, tick, cr1, stack, op,
                   ret_val, loc, hist>>

\* rx_buffer.head = 0;
fl_head ==
    /\ pc = "fl_head"
    /\ rx_buffer' = [rx_buffer EXCEPT !.head = 0]
    /\ rx_flushed' = UART_Available
    /\ rx_stored' = <<>>
    /\ rx_read' = <<>>
    /\ pc' = "fl_tail"
    /\ UNCHANGED <<tx_buffer, timeout_start, tick, cr1, primask, stack, op,
                   ret_val, loc, isr_ret, rx_in, peeked, txh, calls>>

\* rx_buffer.tail = 0;
fl_tail ==
    /\ pc = "fl_tail"
    /\ rx_buffer' = [rx_buffer EXCEPT !.tail = 0]
    /\ pc' = "fl_memset"
    /\ UNCHANGED <<tx_buffer, timeout_start, tick, cr1, primask, stack, op,
                   ret_val, loc, hist>>

\* memset(rx_buffer.buffer, 0, UART_BUFFER_SIZE);
fl_memset ==
    /\ pc = "fl_memset"
    /\ rx_buffer' = [rx_buffer EXCEPT !.buffer = [i \in Index |-> 0]]
    /\ pc' = "fl_enable"
    /\ UNCHANGED <<tx_buffer, timeout_start, tick, cr1, primask, stack, op,
                   ret_val, loc, hist>>

\* __enable_irq();  (the function returns void)
fl_enable ==
    /\ pc = "fl_enable"
    /\ primask' = FALSE
    /\ Return(None)
    /\ UNCHANGED <<rx_buffer, tx_buffer, timeout_start, tick, cr1, op, loc,
                   hist>>

\* ------------------------------------------------ foreground: UART_WriteChar

Call_WriteChar ==
    /\ Len(tx_enq) < MaxTx
    /\ \E c \in Byte : Call("UART_WriteChar", "wc_entry", [Loc0 EXCEPT !.c = c])

\* Variant: next_head computed without the wrap-around.
wc_entry_NoWrap ==
    /\ pc = "wc_entry"
    /\ loc' = [loc EXCEPT !.next_head = tx_buffer.head + 1]
    /\ timeout_start' = ResetTimeout
    /\ snap' = [tx |-> tx_buffer, enq |-> tx_enq]
    /\ pc' = "wc_poll"
    /\ UNCHANGED <<rx_buffer, tx_buffer, tick, cr1, primask, stack, op,
                   ret_val, rxh, peeked, tx_enq, tx_wire, tx_irq, calls>>

\* uint16_t next_head = (tx_buffer.head + 1) % UART_BUFFER_SIZE; ResetTimeout();
wc_entry ==
    /\ pc = "wc_entry"
    /\ loc' = [loc EXCEPT !.next_head = (tx_buffer.head + 1) % UART_BUFFER_SIZE]
    /\ timeout_start' = ResetTimeout
    /\ snap' = [tx |-> tx_buffer, enq |-> tx_enq]
    /\ pc' = "wc_poll"
    /\ UNCHANGED <<rx_buffer, tx_buffer, tick, cr1, primask, stack, op,
                   ret_val, rxh, peeked, tx_enq, tx_wire, tx_irq, calls>>

\* UART_WriteChar storing without waiting for a free slot (wc_poll skipped).
wc_poll_NoWait ==
    /\ pc = "wc_poll"
    /\ pc' = "wc_store"
    /\ UNCHANGED <<rx_buffer, tx_buffer, timeout_start, tick, cr1, primask,
                   stack, op, ret_val, loc, hist>>

\* while (next_head == tx_buffer.tail)
wc_poll ==
    /\ pc = "wc_poll"
    /\ pc' = IF loc.next_head = tx_buffer.tail THEN "wc_expired" ELSE "wc_store"
    /\ UNCHANGED <<rx_buffer, tx_buffer, timeout_start, tick, cr1, primask,
                   stack, op, ret_val, loc, hist>>

\* if (IsTimeOutExpired(DEFAULT_TIMEOUT_MS)) return UART_ERROR_TIMEOUT;
wc_expired ==
    /\ pc = "wc_expired"
    /\ IF IsTimeOutExpired(DEFAULT_TIMEOUT_MS)
       THEN Return(UART_ERROR_TIMEOUT)
       ELSE pc' = "wc_poll" /\ UNCHANGED <<stack, ret_val>>
    /\ UNCHANGED <<rx_buffer, tx_buffer, timeout_start, tick, cr1, primask,
                   op, loc, hist>>

\* tx_buffer.buffer[tx_buffer.head] = c;
wc_store ==
    /\ pc = "wc_store"
    /\ tx_buffer' = [tx_buffer EXCEPT !.buffer[tx_buffer.head] = loc.c]
    /\ pc' = "wc_pub"
    /\ UNCHANGED <<rx_buffer, timeout_start, tick, cr1, primask, stack, op,
                   ret_val, loc, hist>>

\* tx_buffer.head = next_head;
wc_pub ==
    /\ pc = "wc_pub"
    /\ tx_buffer' = [tx_buffer EXCEPT !.head = loc.next_head]
    /\ tx_enq' = Append(tx_enq, loc.c)
    /\ pc' = "wc_arm"
    /\ UNCHANGED <<rx_buffer, timeout_start, tick, cr1, primask, stack, op,
                   ret_val, loc, rxh, peeked, tx_wire, tx_irq, snap, calls>>

\* Variant: the interrupt is armed only if the ring was empty at entry.
wc_arm_OnlyIfWasEmpty ==
    /\ pc = "wc_arm"
    /\ cr1' = IF snap.tx.head = snap.tx.tail THEN cr1 \cup {"TXEIE"} ELSE cr1
    /\ Return(UART_SUCCESS)
    /\ UNCHANGED <<rx_buffer, tx_buffer, timeout_start, tick, primask, op,
                   loc, hist>>

\* __HAL_UART_ENABLE_IT(UART_INSTANCE, UART_IT_TXE); return UART_SUCCESS;
wc_arm ==
    /\ pc = "wc_arm"
    /\ cr1' = cr1 \cup {"TXEIE"}
    /\ Return(UART_SUCCESS)
    /\ UNCHANGED <<rx_buffer, tx_buffer, timeout_start, tick, primask, op,
                   loc, hist>>

\* ----------------------------------------------- foreground: UART_SendString

Call_SendString ==
    \E str \in Strings(MaxStr), n \in BOOLEAN :
        /\ Len(tx_enq) + Len(str) <= MaxTx
        /\ Call("UART_SendString", "ss_entry",
                [Loc0 EXCEPT !.str = IF n THEN <<>> ELSE str, !.str_null = n])

\* if (str == NULL) return UART_ERROR_INVALID_PARAM;
ss_entry ==
    /\ pc = "ss_entry"
    /\ IF loc.str_null
       THEN Return(UART_ERROR_INVALID_PARAM) /\ UNCHANGED loc
       ELSE /\ pc' = "ss_loop"
            /\ loc' = [loc EXCEPT !.i = 1, !.enq0 = Len(tx_enq)]
            /\ UNCHANGED <<stack, ret_val>>
    /\ UNCHANGED <<rx_buffer, tx_buffer, timeout_start, tick, cr1, primask,
                   op, hist>>

\* while (*str) { result = UART_WriteChar(*str); ...  } return UART_SUCCESS;
ss_loop ==
    /\ pc = "ss_loop"
    /\ IF loc.i > Len(loc.str)
       THEN Return(UART_SUCCESS) /\ UNCHANGED loc
       ELSE /\ loc' = [loc EXCEPT !.c = loc.str[loc.i]]
            /\ stack' = <<"ss_after">> \o stack
            /\ pc' = "wc_entry"
            /\ UNCHANGED ret_val
    /\ UNCHANGED <<rx_buffer, tx_buffer, timeout_start, tick, cr1, primask,
                   op, hist>>

\* UART_SendString going on to the next byte after a failed UART_WriteChar.
ss_after_NoStop ==
    /\ pc = "ss_after"
    /\ loc' = [loc EXCEPT !.i = loc.i + 1]
    /\ pc' = "ss_loop"
    /\ UNCHANGED <<stack, ret_val>>
    /\ UNCHANGED <<rx_buffer, tx_buffer, timeout_start, tick, cr1, primask,
                   op, hist>>

\* if (result != UART_SUCCESS) return result; str++;
ss_after ==
    /\ pc = "ss_after"
    /\ IF ret_val # UART_SUCCESS
       THEN Return(ret_val) /\ UNCHANGED loc
       ELSE /\ loc' = [loc EXCEPT !.i = loc.i + 1]
            /\ pc' = "ss_loop"
            /\ UNCHANGED <<stack, ret_val>>
    /\ UNCHANGED <<rx_buffer, tx_buffer, timeout_start, tick, cr1, primask,
                   op, hist>>

\* --------------------------------------------------- foreground: WaitForData

\* ResetTimeout();
wd_entry ==
    /\ pc = "wd_entry"
    /\ timeout_start' = ResetTimeout
    /\ pc' = "wd_poll"
    /\ UNCHANGED <<rx_buffer, tx_buffer, tick, cr1, primask, stack, op,
                   ret_val, loc, hist>>

\* while (UART_Available() == 0) ...  return UART_SUCCESS;
wd_poll ==
    /\ pc = "wd_poll"
    /\ IF UART_Available = 0
       THEN pc' = "wd_expired" /\ UNCHANGED <<stack, ret_val>>
       ELSE Return(UART_SUCCESS)
    /\ UNCHANGED <<rx_buffer, tx_buffer, timeout_start, tick, cr1, primask,
                   op, loc, hist>>

\* Variant: the wait gives up without consulting the clock.
wd_expired_NoClock ==
    /\ pc = "wd_expired"
    /\ Return(UART_ERROR_TIMEOUT)
    /\ UNCHANGED <<rx_buffer, tx_buffer, timeout_start, tick, cr1, primask,
                   op, loc, hist>>

\* if (IsTimeOutExpired(timeout_ms)) return UART_ERROR_TIMEOUT;
wd_expired ==
    /\ pc = "wd_expired"
    /\ IF IsTimeOutExpired(loc.timeout_ms)
       THEN Return(UART_ERROR_TIMEOUT)
       ELSE pc' = "wd_poll" /\ UNCHANGED <<stack, ret_val>>
    /\ UNCHANGED <<rx_buffer, tx_buffer, timeout_start, tick, cr1, primask,
                   op, loc, hist>>

WaitForDataSteps == wd_entry \/ wd_poll \/ wd_expired

\* -------------------------------------------- foreground: UART_WaitForString

Call_WaitForString ==
    /\ calls < MaxCalls
    /\ \E str \in Strings(MaxPat), n \in BOOLEAN, t \in Timeouts :
        \* a NULL str is tried once, not once per string and timeout
        /\ n => (str = <<>> /\ t = 0)
        /\ Call("UART_WaitForString", "wfs_entry",
                [Loc0 EXCEPT !.str = str, !.str_null = n, !.timeout_ms = t])

\* Variant: the loop ends one character before the pattern is complete.
wfs_loop_StopsEarly(l) ==
    IF l.match_pos < Len(l.str) - 1
    THEN /\ stack' = <<"wfs_waited">> \o stack
         /\ pc' = "wd_entry"
         /\ UNCHANGED ret_val
    ELSE Return(UART_SUCCESS)

\* while (match_pos < str_len) { if (WaitForData(timeout_ms) ...  }
\* return UART_SUCCESS;
\* The loop test for the locals l: call WaitForData or return.
wfs_loop(l) ==
    IF l.match_pos < Len(l.str)
    THEN /\ stack' = <<"wfs_waited">> \o stack
         /\ pc' = "wd_entry"
         /\ UNCHANGED ret_val
    ELSE Return(UART_SUCCESS)

\* if (str == NULL || strlen(str) == 0) return UART_ERROR_INVALID_PARAM;
\* match_pos = 0; ResetTimeout(); and the first loop test.
wfs_entry ==
    /\ pc = "wfs_entry"
    /\ IF loc.str_null \/ Len(loc.str) = 0
       THEN Return(UART_ERROR_INVALID_PARAM) /\ UNCHANGED <<loc, timeout_start>>
       ELSE /\ loc' = [loc EXCEPT !.match_pos = 0,
                                  !.rd0 = Len(rx_read), !.st0 = Len(rx_stored),
                                  !.progress = ResetTimeout]
            /\ timeout_start' = ResetTimeout
            /\ wfs_loop(loc')
    /\ UNCHANGED <<rx_buffer, tx_buffer, tick, cr1, primask, op, hist>>

\* if (WaitForData(timeout_ms) != UART_SUCCESS) return UART_ERROR_TIMEOUT;
\* ... UART_ReadChar(&c)
wfs_waited ==
    /\ pc = "wfs_waited"
    /\ IF ret_val # UART_SUCCESS
       THEN Return(UART_ERROR_TIMEOUT) /\ UNCHANGED loc
       ELSE /\ loc' = [loc EXCEPT !.c_null = FALSE]
            /\ stack' = <<"wfs_read">> \o stack
            /\ pc' = "rc_entry"
            /\ UNCHANGED ret_val
    /\ UNCHANGED <<rx_buffer, tx_buffer, timeout_start, tick, cr1, primask,
                   op, hist>>

\* if (UART_ReadChar(&c) != UART_SUCCESS) continue;
\* (match_pos update)  if (match_pos > 0) ResetTimeout(); and the loop test.
wfs_read ==
    /\ pc = "wfs_read"
    /\ IF ret_val # UART_SUCCESS
       THEN UNCHANGED <<loc, timeout_start>>
       ELSE \E e \in StrRead(loc.str, loc.match_pos) :
              LET m == MatchNext(loc.str, loc.match_pos, loc.c, e)
              IN  /\ loc' = [loc EXCEPT !.match_pos = m,
                                        !.progress = IF m > 0 THEN ResetTimeout
                                                     ELSE loc.progress]
                  /\ timeout_start' = IF m > 0 THEN ResetTimeout
                                      ELSE timeout_start
    /\ wfs_loop(loc')
    /\ UNCHANGED <<rx_buffer, tx_buffer, tick, cr1, primask, op, hist>>

\* ------------------------------------------------ foreground: UART_CopyUntil

Call_CopyUntil ==
    /\ calls < MaxCalls
    /\ \E end_str \in Strings(MaxPat), n \in BOOLEAN, bn \in BOOLEAN,
          size \in 0 .. MaxCap, t \in Timeouts :
        \* an invalid argument is tried once, not once per value of the others
        /\ n => (end_str = <<>> /\ ~bn /\ size = 1 /\ t = 0)
        /\ bn => (end_str = <<1>> /\ size = 1 /\ t = 0)
        /\ (size = 0) => (end_str = <<1>> /\ t = 0)
        /\ Call("UART_CopyUntil", "cu_entry",
                [Loc0 EXCEPT !.str = end_str, !.str_null = n,
                             !.buffer = IF bn THEN <<>>
                                        ELSE [k \in 1 .. size |-> Garbage],
                             !.buffer_null = bn,
                             !.buffer_size = size,
                             !.timeout_ms = t])

\* Variant: the loop fills the whole destination, leaving no room for the
\* terminator.
cu_loop_OffByOne(l) ==
    IF l.buffer_pos < l.buffer_size
    THEN /\ stack' = <<"cu_waited">> \o stack
         /\ pc' = "wd_entry"
         /\ loc' = l
         /\ UNCHANGED ret_val
    ELSE /\ loc' = WriteAt(l, l.buffer_pos, 0)
         /\ Return(UART_ERROR_BUFFER_FULL)

\* while (buffer_pos < buffer_size - 1) { if (WaitForData(timeout_ms) ...  }
\* buffer[buffer_pos] = '\0'; return UART_ERROR_BUFFER_FULL;
\* The loop test for the locals l: call WaitForData, or terminate and return.
cu_loop(l) ==
    IF l.buffer_pos < l.buffer_size - 1
    THEN /\ stack' = <<"cu_waited">> \o stack
         /\ pc' = "wd_entry"
         /\ loc' = l
         /\ UNCHANGED ret_val
    ELSE /\ loc' = WriteAt(l, l.buffer_pos, 0)
         /\ Return(UART_ERROR_BUFFER_FULL)

\* if (end_str == NULL || buffer == NULL || buffer_size == 0) return INVALID;
\* buffer_pos = 0; match_pos = 0; ResetTimeout(); and the first loop test.
cu_entry ==
    /\ pc = "cu_entry"
    /\ IF loc.str_null \/ loc.buffer_null \/ loc.buffer_size = 0
       THEN Return(UART_ERROR_INVALID_PARAM) /\ UNCHANGED <<loc, timeout_start>>
       ELSE /\ timeout_start' = ResetTimeout
            /\ cu_loop([loc EXCEPT !.match_pos = 0, !.buffer_pos = 0,
                                   !.rd0 = Len(rx_read),
                                   !.st0 = Len(rx_stored)])
    /\ UNCHANGED <<rx_buffer, tx_buffer, tick, cr1, primask, op, hist>>

\* if (WaitForData(timeout_ms) != UART_SUCCESS) return UART_ERROR_TIMEOUT;
\* ... UART_ReadChar(&c)
cu_waited ==
    /\ pc = "cu_waited"
    /\ IF ret_val # UART_SUCCESS
       THEN Return(UART_ERROR_TIMEOUT) /\ UNCHANGED loc
       ELSE /\ loc' = [loc EXCEPT !.c_null = FALSE]
            /\ stack' = <<"cu_read">> \o stack
            /\ pc' = "rc_entry"
            /\ UNCHANGED ret_val
    /\ UNCHANGED <<rx_buffer, tx_buffer, timeout_start, tick, cr1, primask,
                   op, hist>>

\* if (UART_ReadChar(&c) != UART_SUCCESS) continue;
\* buffer[buffer_pos++] = c;  (match_pos update; on a full match:
\* buffer[buffer_pos] = '\0'; return UART_SUCCESS;)  and the loop test.
cu_read ==
    /\ pc = "cu_read"
    /\ IF ret_val # UART_SUCCESS
       THEN cu_loop(loc)
       ELSE \E e \in StrRead(loc.str, loc.match_pos) :
              LET copied == [WriteAt(loc, loc.buffer_pos, loc.c)
                                EXCEPT !.buffer_pos = loc.buffer_pos + 1]
                  m == MatchNext(loc.str, loc.match_pos, loc.c, e)
              IN  IF loc.c = e /\ m = Len(loc.str)
                  THEN /\ loc' = [WriteAt(copied, copied.buffer_pos, 0)
                                     EXCEPT !.match_pos = m]
                       /\ Return(UART_SUCCESS)
                  ELSE cu_loop([copied EXCEPT !.match_pos = m])
    /\ UNCHANGED <<rx_buffer, tx_buffer, timeout_start, tick, cr1, primask,
                   op, hist>>

\* ------------------------------------------- foreground: UART_ExtractBetween

\* size_t: the value FindStringInBuffer returns for "not found".
SIZE_MAX == -1

\* memcmp(buffer + i, str, str_len) == 0, for a buffer given as a sequence.
MemEq(str, buffer, i) ==
    \A k \in 1 .. Len(str) : buffer[i + k] = str[k]

\* for (i = ...; i <= buffer_len - str_len; i++) if (memcmp(...) == 0) return i;
\* return SIZE_MAX;
RECURSIVE FindFrom(_, _, _)
FindFrom(str, buffer, i) ==
    IF i <= Len(buffer) - Len(str)
    THEN IF MemEq(str, buffer, i) THEN i ELSE FindFrom(str, buffer, i + 1)
    ELSE SIZE_MAX

\* Variant: the scan stops one position early.
FindStringInBuffer_StopsEarly(str, buffer) ==
    IF Len(str) = 0 \/ Len(str) > Len(buffer)
    THEN SIZE_MAX
    ELSE FindFrom(str, SubSeq(buffer, 1, Len(buffer) - 1), 0)

\* static size_t FindStringInBuffer(str, buffer, buffer_len), for non-NULL
\* str and buffer (its callers pass no NULL).
FindStringInBuffer(str, buffer) ==
    IF Len(str) = 0 \/ Len(str) > Len(buffer)
    THEN SIZE_MAX
    ELSE FindFrom(str, buffer, 0)

\* UART_ExtractBetween for the arguments in l: the value returned and the
\* destination it leaves.
UART_ExtractBetween(l) ==
    IF l.start_null \/ l.str_null \/ l.source_null \/ l.buffer_null
       \/ l.buffer_size = 0
    THEN [ret |-> UART_ERROR_INVALID_PARAM, dest |-> l.buffer]
    ELSE
    LET source_len == Len(l.source)
        found == FindStringInBuffer(l.start_str, l.source)
    IN  IF found = SIZE_MAX
        THEN [ret |-> UART_ERROR_NOT_FOUND, dest |-> l.buffer]
        ELSE
        LET start_pos == found + Len(l.start_str)
            rel == FindStringInBuffer(l.str,
                                      SubSeq(l.source, start_pos + 1, source_len))
        IN  IF rel = SIZE_MAX
            THEN [ret |-> UART_ERROR_NOT_FOUND, dest |-> l.buffer]
            ELSE
            LET end_pos == rel + start_pos
                len == end_pos - start_pos
                copy_len == IF len >= l.buffer_size
                            THEN l.buffer_size - 1 ELSE len
            IN  [ret |-> UART_SUCCESS,
                 dest |-> [k \in 1 .. l.buffer_size |->
                             IF k <= copy_len THEN l.source[start_pos + k]
                             ELSE IF k = copy_len + 1 THEN 0
                             ELSE l.buffer[k]]]

\* The function depends on nothing but its arguments, so a behaviour applies
\* it once.
Call_ExtractBetween ==
    /\ calls = 0
    /\ \E start_str \in Strings(MaxPat), end_str \in Strings(MaxPat),
          source \in Strings(MaxSrc), size \in 0 .. MaxCap,
          sn \in BOOLEAN, en \in BOOLEAN, srn \in BOOLEAN, dn \in BOOLEAN :
        \* an invalid argument is tried once, not once per value of the others
        /\ (sn \/ en \/ srn \/ dn \/ size = 0)
             => (start_str = <<1>> /\ end_str = <<2>> /\ source = <<1, 2>>)
        /\ (sn \/ en \/ srn \/ dn) => size = 1
        /\ Call("UART_ExtractBetween", "eb_entry",
                [Loc0 EXCEPT !.start_str = IF sn THEN <<>> ELSE start_str,
                             !.start_null = sn,
                             !.str = IF en THEN <<>> ELSE end_str,
                             !.str_null = en,
                             !.source = IF srn THEN <<>> ELSE source,
                             !.source_null = srn,
                             !.buffer = IF dn THEN <<>>
                                        ELSE [k \in 1 .. size |-> Garbage],
                             !.buffer_null = dn,
                             !.buffer_size = size])

\* The whole function: it reads and writes only its arguments.
eb_entry ==
    /\ pc = "eb_entry"
    /\ LET r == UART_ExtractBetween(loc)
       IN  /\ loc' = [loc EXCEPT !.buffer = r.dest]
           /\ Return(r.ret)
    /\ UNCHANGED <<rx_buffer, tx_buffer, timeout_start, tick, cr1, primask,
                   op, hist>>

\* ------------------------------------------- the match_pos update on its own

\* size_t match_pos = 0; for a non-empty pattern str.
mt_start ==
    /\ calls = 0
    /\ \E str \in Strings(MaxMatch) \ {<<>>} :
        Call("match_pos", "mt_feed", [Loc0 EXCEPT !.str = str])

\* One pass of the loop body for a byte c that UART_ReadChar returned, while
\* match_pos < str_len: lines 191-197 (the same at 241-252).
mt_feed ==
    /\ pc = "mt_feed"
    /\ loc.match_pos < Len(loc.str)
    /\ Len(rx_read) < MaxStream
    /\ \E c \in Char, e \in StrRead(loc.str, loc.match_pos) :
        /\ loc' = [loc EXCEPT !.c = c,
                              !.match_pos = MatchNext(loc.str, loc.match_pos,
                                                      c, e)]
        /\ rx_read' = Append(rx_read, c)
    /\ UNCHANGED <<rx_buffer, tx_buffer, timeout_start, tick, cr1, primask,
                   pc, stack, op, ret_val, isr_ret, rx_in, rx_stored,
                   rx_flushed, peeked, txh, calls>>

\* ------------------------------------------------------------ specifications

NextRx ==
    \/ ISR
    \/ Call_ReadChar \/ rc_entry \/ rc_load \/ rc_adv
    \/ Call_Peek \/ pk_entry \/ pk_load
    \/ Call_Available \/ av_entry
    \/ Call_FlushRX \/ fl_disable \/ fl_head \/ fl_tail \/ fl_memset \/ fl_enable

SpecRx == Init /\ [][NextRx]_vars

WriteCharSteps ==
    wc_entry \/ wc_poll \/ wc_expired \/ wc_store \/ wc_pub \/ wc_arm

NextTx ==
    \/ ISR_TxReady
    \/ Tick
    \/ Call_WriteChar \/ WriteCharSteps
    \/ Call_SendString \/ ss_entry \/ ss_loop \/ ss_after

SpecTx == Init /\ [][NextTx]_vars

\* The foreground inside UART_WriteChar or UART_SendString goes on running,
\* and the peripheral keeps raising TXE while its interrupt is enabled.
SendSteps == WriteCharSteps \/ ss_entry \/ ss_loop \/ ss_after

SpecTxFair == SpecTx /\ WF_vars(SendSteps) /\ WF_vars(ISR_TxReady)

ReadCharSteps == rc_entry \/ rc_load \/ rc_adv

NextWfs ==
    \/ ISR_RxReady
    \/ Tick
    \/ Call_WaitForString \/ wfs_entry \/ wfs_waited \/ wfs_read
    \/ WaitForDataSteps \/ ReadCharSteps

SpecWfs == Init /\ [][NextWfs]_vars

NextCu ==
    \/ ISR_RxReady
    \/ Tick
    \/ Call_CopyUntil \/ cu_entry \/ cu_waited \/ cu_read
    \/ WaitForDataSteps \/ ReadCharSteps

SpecCu == Init /\ [][NextCu]_vars

NextEb == Call_ExtractBetween \/ eb_entry

SpecEb == Init /\ [][NextEb]_vars

FlushSteps == fl_disable \/ fl_head \/ fl_tail \/ fl_memset \/ fl_enable

\* Both rings together: every function that writes head or tail, with the
\* handler; the clock stands still.
NextRings ==
    \/ ISR_Flags
    \/ Call_ReadChar \/ ReadCharSteps
    \/ Call_FlushRX \/ FlushSteps
    \/ Call_WriteChar \/ WriteCharSteps

SpecRings == Init /\ [][NextRings]_vars

NextMatch == mt_start \/ mt_feed

SpecMatch == Init /\ [][NextMatch]_vars

\* The three functions that take a pattern, with the ISR and the tick.
NextParse == NextWfs \/ NextCu \/ NextEb

SpecParse == Init /\ [][NextParse]_vars

\* ------------------------------------------------------------------ claims

FlushPcs == {"fl_head", "fl_tail", "fl_memset", "fl_enable"}

\* C1: outside a flush, the bytes UART_ReadChar has returned followed by the
\* bytes still in the RX ring are exactly the bytes StoreChar stored, in the
\* same order (no loss, duplication or reordering), at most N-1 bytes are
\* pending, and UART_Available() is the number of stored-but-unread bytes.
C1_RxFifo ==
    ~primask =>
        /\ rx_stored = rx_read \o Pending(rx_buffer)
        /\ IsPrefix(rx_read, rx_stored)
        /\ UART_Available = Len(rx_stored) - Len(rx_read)
        /\ UART_Available <= UART_BUFFER_SIZE - 1

\* C1 witness: the ring has wrapped around: N bytes read back, in an order
\* that distinguishes them, and a later byte still pending.
C1_Witness ==
    /\ Len(rx_read) = UART_BUFFER_SIZE
    /\ rx_read[1] # rx_read[2]
    /\ UART_Available = 1
    /\ rx_flushed = 0
    /\ pc = "idle" /\ op = "UART_ReadChar" /\ ret_val = UART_SUCCESS

\* C2: an ISR that reads a byte from RDR while the RX ring holds N-1 unread
\* bytes gets BUFFER_FULL from StoreChar, and head, tail, the contents, the
\* stored history and UART_Available() are unchanged: the byte is dropped.
C2_FullPushDropped ==
    [][(rx_in' = rx_in + 1 /\ UART_Available = UART_BUFFER_SIZE - 1)
          => /\ isr_ret' = UART_ERROR_BUFFER_FULL
             /\ rx_buffer' = rx_buffer
             /\ UART_Available' = UART_Available
             /\ rx_stored' = rx_stored]_vars

\* C2 witness: a byte was read from RDR and dropped on a full ring.
C2_Witness ==
    /\ isr_ret = UART_ERROR_BUFFER_FULL
    /\ UART_Available = UART_BUFFER_SIZE - 1
    /\ rx_in = Len(rx_stored) + 1
    /\ rx_flushed = 0

\* C3: the step of UART_ReadChar or UART_Peek that finds the RX ring empty
\* (head == tail, c not NULL) returns BUFFER_EMPTY and leaves head, tail and
\* the contents unchanged.
C3_EmptyReadPeek ==
    [][(/\ pc \in {"rc_entry", "pk_entry"}
        /\ pc' # pc
        /\ ~loc.c_null
        /\ rx_buffer.head = rx_buffer.tail)
          => /\ ret_val' = UART_ERROR_BUFFER_EMPTY
             /\ pc' \notin {"rc_load", "pk_load"}
             /\ rx_buffer' = rx_buffer
             /\ rx_read' = rx_read]_vars

\* C3 witness: UART_ReadChar returned BUFFER_EMPTY on a ring drained to a
\* non-zero index.
C3_Witness ==
    /\ pc = "idle" /\ op = "UART_ReadChar"
    /\ ret_val = UART_ERROR_BUFFER_EMPTY
    /\ rx_buffer.head = rx_buffer.tail /\ rx_buffer.tail # 0
    /\ rx_read # <<>>

\* C4: every step of UART_Peek leaves the RX ring (head, tail, contents, so
\* UART_Available()) unchanged; a successful UART_Peek returns the byte at
\* tail; and a UART_ReadChar called next (with a non-NULL c) returns SUCCESS
\* and that same byte, whatever the ISR stored in between.
C4_PeekThenRead ==
    /\ [][(pc \in {"pk_entry", "pk_load"} /\ pc' # pc)
             => (rx_buffer' = rx_buffer /\ UART_Available' = UART_Available)]_vars
    /\ [][(pc = "pk_load" /\ pc' # pc)
             => (ret_val' = UART_SUCCESS
                 /\ loc'.c = rx_buffer.buffer[rx_buffer.tail])]_vars
    /\ []((pc = "idle" /\ op = "UART_ReadChar" /\ peeked # None
            /\ ~loc.c_null)
             => (ret_val = UART_SUCCESS /\ loc.c = peeked))

\* C4 witness: a UART_ReadChar that followed a successful UART_Peek has
\* returned, and the ISR stored a byte after the peeked one meanwhile.
C4_Witness ==
    /\ pc = "idle" /\ op = "UART_ReadChar" /\ peeked # None
    /\ ret_val = UART_SUCCESS /\ loc.c = peeked
    /\ UART_Available >= 1
    /\ rx_buffer.buffer[rx_buffer.tail] # peeked

\* C5: UART_FlushRX runs with interrupts masked from its first write to its
\* last, no interrupt handler (UART or tick) runs while they are masked, and
\* its last step leaves head = tail = 0, the storage zeroed, interrupts
\* enabled again and UART_Available() = 0.
C5_FlushAtomic ==
    /\ [](pc \in FlushPcs => primask)
    /\ [][primask => (rx_in' = rx_in /\ tx_wire' = tx_wire /\ cr1' = cr1
                      /\ tick' = tick)]_vars
    /\ [][(pc = "fl_enable" /\ pc' # pc)
             => /\ rx_buffer' = EmptyRing
                /\ UART_Available' = 0
                /\ ~primask']_vars

\* C5 witness: a flush that discarded a full ring (tail not at 0) returned.
C5_Witness ==
    /\ pc = "idle" /\ op = "UART_FlushRX"
    /\ rx_flushed = UART_BUFFER_SIZE - 1
    /\ rx_in > UART_BUFFER_SIZE
    /\ rx_buffer = EmptyRing /\ ~primask

WriteCharPcs ==
    {"wc_entry", "wc_poll", "wc_expired", "wc_store", "wc_pub", "wc_arm"}

\* A UART_WriteChar call has just returned (to the application, or to
\* UART_SendString) and ret_val is its result.
WriteCharReturned ==
    \/ pc = "idle" /\ op = "UART_WriteChar"
    \/ pc = "ss_after"

\* C6: the bytes written to TDR followed by the bytes pending in the TX ring
\* are exactly the bytes UART_WriteChar published, in order (so the TDR
\* sequence is a prefix of the enqueued sequence and holds no stale or
\* not-yet-stored slot); only a TX-ready interrupt writes TDR, one pending
\* byte (the one at tail) per interrupt; and a TX-ready interrupt handled
\* while the TX ring is empty disables the TXE interrupt and writes nothing.
C6_TxOrder ==
    /\ [](tx_enq = tx_wire \o Pending(tx_buffer) /\ IsPrefix(tx_wire, tx_enq))
    /\ [][tx_wire' # tx_wire
             => /\ tx_irq' = tx_irq + 1
                /\ tx_buffer.head # tx_buffer.tail
                /\ tx_wire' = Append(tx_wire, tx_buffer.buffer[tx_buffer.tail])]_vars
    /\ [][(tx_irq' # tx_irq /\ tx_buffer.head = tx_buffer.tail)
             => /\ "TXEIE" \notin cr1'
                /\ tx_wire' = tx_wire
                /\ tx_buffer' = tx_buffer]_vars

\* C6 witness: the TX ring wrapped around, its bytes reached TDR in order and
\* the interrupt that found it drained disabled TXE.
C6_Witness ==
    /\ Len(tx_wire) = UART_BUFFER_SIZE /\ tx_wire = tx_enq
    /\ tx_wire[1] # tx_wire[2]
    /\ tx_irq > Len(tx_wire)
    /\ "TXEIE" \notin cr1

\* C7: UART_WriteChar writes a slot only after a poll found it free (so no
\* unread byte is overwritten) and never moves tail; a poll that finds the
\* ring full goes to the expiry check and one that finds a free slot goes on
\* to enqueue; the arming step sets TXEIE and returns SUCCESS with the byte
\* appended to the enqueued bytes; a TIMEOUT return happens only with the
\* timeout elapsed, and then head, the contents and the enqueued bytes are
\* those of the call's entry.
C7_WriteChar ==
    /\ [](pc \in {"wc_store", "wc_pub"}
            => /\ loc.next_head # tx_buffer.tail
               /\ loc.next_head = (tx_buffer.head + 1) % UART_BUFFER_SIZE)
    /\ [][(pc \in WriteCharPcs /\ pc' # pc)
             => /\ tx_buffer'.tail = tx_buffer.tail
                /\ Pending(tx_buffer) = SubSeq(Pending(tx_buffer'), 1,
                                               Len(Pending(tx_buffer)))
                /\ tx_wire' = tx_wire]_vars
    /\ [][(pc = "wc_poll" /\ pc' # pc)
             => pc' = IF (tx_buffer.head + 1) % UART_BUFFER_SIZE = tx_buffer.tail
                      THEN "wc_expired" ELSE "wc_store"]_vars
    /\ [][(pc = "wc_arm" /\ pc' # pc)
             => /\ "TXEIE" \in cr1'
                /\ ret_val' = UART_SUCCESS
                /\ tx_enq = Append(snap.enq, loc.c)
                /\ tx_buffer.buffer[snap.tx.head] = loc.c]_vars
    /\ []((WriteCharReturned /\ ret_val = UART_SUCCESS)
            => tx_enq = Append(snap.enq, loc.c))
    /\ []((WriteCharReturned /\ ret_val # UART_SUCCESS)
            => /\ ret_val = UART_ERROR_TIMEOUT
               /\ IsTimeOutExpired(DEFAULT_TIMEOUT_MS)
               /\ tx_buffer.head = snap.tx.head
               /\ tx_buffer.buffer = snap.tx.buffer
               /\ tx_enq = snap.enq)

\* C7 witness (timeout): a UART_WriteChar entered on a full TX ring returned
\* TIMEOUT.
C7_Witness ==
    /\ pc = "idle" /\ op = "UART_WriteChar"
    /\ ret_val = UART_ERROR_TIMEOUT
    /\ Len(Pending(tx_buffer)) = UART_BUFFER_SIZE - 1
    /\ tx_buffer.head # 0

\* C8: once UART_SendString(str) has started, the bytes enqueued since its
\* entry are the first k bytes of str, in order; when it returns, the result
\* is SUCCESS exactly if k is the whole length, and otherwise it is the
\* TIMEOUT of the UART_WriteChar for byte k+1: the k bytes before it stay
\* enqueued and nothing after it is enqueued.
C8_SendString ==
    (op = "UART_SendString" /\ pc # "ss_entry" /\ ~loc.str_null) =>
        LET k == Len(tx_enq) - loc.enq0
        IN  /\ k \in 0 .. Len(loc.str)
            /\ SubSeq(tx_enq, loc.enq0 + 1, Len(tx_enq)) = SubSeq(loc.str, 1, k)
            /\ pc = "idle" =>
                  /\ ret_val \in {UART_SUCCESS, UART_ERROR_TIMEOUT}
                  /\ (ret_val = UART_SUCCESS) <=> (k = Len(loc.str))
                  /\ (ret_val # UART_SUCCESS) => (k = loc.i - 1)

\* C8 witness: a two-byte string whose first byte was enqueued and whose
\* second byte timed out: TIMEOUT returned, the first byte still enqueued.
C8_Witness ==
    /\ pc = "idle" /\ op = "UART_SendString"
    /\ ret_val = UART_ERROR_TIMEOUT
    /\ Len(loc.str) = 2 /\ loc.str[1] # loc.str[2]
    /\ Len(tx_enq) - loc.enq0 = 1
    /\ tx_enq[Len(tx_enq)] = loc.str[1]

\* The bytes the running (or last) streaming call has taken from the RX ring.
Consumed == SubSeq(rx_read, loc.rd0 + 1, Len(rx_read))

\* A streaming call that passed its parameter check.
StreamStarted(name, entry) == op = name /\ pc # entry /\ ret_val # UART_ERROR_INVALID_PARAM

\* C9: a UART_WaitForString with a valid pattern returns SUCCESS or TIMEOUT.
\* A poll that finds a byte never times out, whatever the clock says, and a
\* poll goes to the expiry check only when every byte the feed has stored has
\* been consumed; so a call that consumes the pattern as its first bytes (or,
\* for a pattern of one or two characters, anywhere) returns SUCCESS, with
\* the pattern the last bytes consumed.  TIMEOUT is returned only with
\* timeout_ms elapsed since the last reset; and a call that found the ring
\* empty, with nothing stored by the feed since, has returned TIMEOUT with
\* no byte consumed and the ring untouched.
C9_WaitForString ==
    /\ []((StreamStarted("UART_WaitForString", "wfs_entry") /\ pc = "idle")
            => /\ ret_val \in {UART_SUCCESS, UART_ERROR_TIMEOUT}
               /\ IsPrefix(loc.str, Consumed)
                    => (ret_val = UART_SUCCESS /\ Consumed = loc.str)
               /\ (Len(loc.str) <= 2 /\ Occurs(loc.str, Consumed))
                    => ret_val = UART_SUCCESS
               /\ ret_val = UART_SUCCESS
                    => (IsSuffix(loc.str, Consumed)
                          /\ loc.match_pos = Len(loc.str))
               /\ ret_val = UART_ERROR_TIMEOUT
                    => (IsTimeOutExpired(loc.timeout_ms)
                          /\ loc.match_pos < Len(loc.str))
               /\ (loc.st0 = loc.rd0 /\ Len(rx_stored) = loc.st0)
                    => /\ ret_val = UART_ERROR_TIMEOUT
                       /\ Consumed = <<>>
                       /\ rx_buffer.tail = rx_buffer.head)
    /\ [][(op = "UART_WaitForString" /\ pc = "wd_poll" /\ pc' # pc)
             => IF Len(rx_stored) > Len(rx_read)
                THEN pc' = "wfs_waited" /\ ret_val' = UART_SUCCESS
                ELSE pc' = "wd_expired" /\ rx_stored = rx_read]_vars
    /\ [][(op = "UART_WaitForString" /\ pc = "wd_expired" /\ pc' # pc)
             => IF IsTimeOutExpired(loc.timeout_ms)
                THEN pc' = "wfs_waited" /\ ret_val' = UART_ERROR_TIMEOUT
                     /\ rx_read' = rx_read
                ELSE pc' = "wd_poll"]_vars

\* C9 witness: a call entered on an empty ring with a two-character pattern
\* and a non-zero timeout returned SUCCESS after the feed delivered exactly
\* the pattern while the clock advanced.
C9_Witness ==
    /\ pc = "idle" /\ op = "UART_WaitForString"
    /\ ret_val = UART_SUCCESS
    /\ Len(loc.str) = 2 /\ loc.str[1] # loc.str[2]
    /\ loc.timeout_ms > 0
    /\ loc.st0 = loc.rd0
    /\ Consumed = loc.str
    /\ tick # TickStart

\* C10: in a UART_CopyUntil with valid arguments the first buffer_pos cells
\* of the destination are the bytes consumed so far, in order (the byte just
\* read being appended by the next step), and no write falls outside the
\* buffer_size cells.  On SUCCESS the matcher has completed the pattern, the
\* k = buffer_pos <= buffer_size - 1 consumed bytes end with the pattern and
\* cell k holds the terminator.  On BUFFER_FULL exactly buffer_size - 1 bytes
\* were consumed without completing the pattern and the last cell holds the
\* terminator.  A pattern of one or two characters found in the consumed
\* bytes gives SUCCESS, also when its last byte is byte buffer_size - 1.
C10_CopyUntil ==
    StreamStarted("UART_CopyUntil", "cu_entry") =>
        LET k == loc.buffer_pos
            dest == SubSeq(loc.buffer, 1, k)
            cap == loc.buffer_size
        IN  /\ ~loc.oob
            /\ Len(loc.buffer) = cap
            /\ k <= cap - 1
            /\ IF pc = "cu_read"
               THEN ret_val = UART_SUCCESS /\ Consumed = Append(dest, loc.c)
               ELSE Consumed = dest
            /\ \A j \in (k + 2) .. cap : loc.buffer[j] = Garbage
            /\ pc = "idle" =>
                /\ ret_val \in {UART_SUCCESS, UART_ERROR_BUFFER_FULL,
                                 UART_ERROR_TIMEOUT}
                /\ ret_val = UART_SUCCESS
                     => /\ loc.buffer[k + 1] = 0
                        /\ Len(loc.str) > 0
                        /\ loc.match_pos = Len(loc.str)
                        /\ IsSuffix(loc.str, Consumed)
                /\ ret_val = UART_ERROR_BUFFER_FULL
                     => /\ k = cap - 1
                        /\ loc.buffer[cap] = 0
                        /\ Len(loc.str) > 0 => loc.match_pos < Len(loc.str)
                /\ (Len(loc.str) \in 1 .. 2 /\ Occurs(loc.str, Consumed))
                     => ret_val = UART_SUCCESS

\* C10 witness: a destination of four cells received one other byte and then
\* a two-character pattern: SUCCESS with the three bytes and the terminator
\* in the last cell.
C10_Witness ==
    /\ pc = "idle" /\ op = "UART_CopyUntil"
    /\ ret_val = UART_SUCCESS
    /\ loc.buffer_size = 4 /\ loc.buffer_pos = 3
    /\ Len(loc.str) = 2 /\ loc.str[1] # loc.str[2]
    /\ Consumed = <<loc.str[2]>> \o loc.str
    /\ loc.buffer = Append(Consumed, 0)

\* The positions (0-based) at which p occurs in s.
Occurrences(p, s) ==
    {i \in 0 .. (Len(s) - Len(p)) : SubSeq(s, i + 1, i + Len(p)) = p}

\* The least element of a non-empty set of naturals.
Least(S) == CHOOSE i \in S : \A j \in S : i <= j

\* A UART_ExtractBetween that has returned from a call with non-NULL
\* arguments, non-empty delimiters and a destination of at least one cell.
ExtractReturned ==
    /\ pc = "idle" /\ op = "UART_ExtractBetween"
    /\ ~(loc.start_null \/ loc.str_null \/ loc.source_null \/ loc.buffer_null)
    /\ loc.buffer_size > 0
    /\ Len(loc.start_str) > 0 /\ Len(loc.str) > 0

\* C11: UART_ExtractBetween with non-empty delimiters returns NOT_FOUND, with
\* the destination untouched, when start does not occur in source or end
\* does not occur in what follows the first occurrence of start; otherwise
\* it returns SUCCESS and the destination holds the bytes between the first
\* occurrence of start and the first occurrence of end after it, cut to
\* dest_size - 1 bytes, then the terminator, the cells behind it untouched.
C11_ExtractBetween ==
    ExtractReturned =>
        LET so == Occurrences(loc.start_str, loc.source)
            from == Least(so) + Len(loc.start_str)
            rest == SubSeq(loc.source, from + 1, Len(loc.source))
            eo == Occurrences(loc.str, rest)
            between == SubSeq(rest, 1, Least(eo))
            n == IF Len(between) > loc.buffer_size - 1
                 THEN loc.buffer_size - 1 ELSE Len(between)
        IN  IF so = {} \/ eo = {}
            THEN /\ ret_val = UART_ERROR_NOT_FOUND
                 /\ \A k \in 1 .. loc.buffer_size : loc.buffer[k] = Garbage
            ELSE /\ ret_val = UART_SUCCESS
                 /\ SubSeq(loc.buffer, 1, n) = SubSeq(between, 1, n)
                 /\ loc.buffer[n + 1] = 0
                 /\ \A k \in (n + 2) .. loc.buffer_size :
                        loc.buffer[k] = Garbage

\* C11 witness: the bytes between the delimiters did not fit and were cut
\* to dest_size - 1, the end delimiter being the last bytes of the source.
C11_Witness ==
    /\ ExtractReturned /\ ret_val = UART_SUCCESS
    /\ Len(loc.source) = MaxSrc
    /\ loc.start_str = <<loc.source[1]>>
    /\ loc.str = <<loc.source[MaxSrc]>>
    /\ loc.start_str # loc.str
    /\ loc.buffer_size = 2
    /\ loc.buffer = <<loc.source[2], 0>>

\* The first step of each public function that takes a pointer or a string.
EntryPcs == {"rc_entry", "pk_entry", "ss_entry", "wfs_entry", "cu_entry",
             "eb_entry"}

\* The function at its first step was given a NULL or zero-length argument.
BadArgs ==
    \/ pc \in {"rc_entry", "pk_entry"} /\ loc.c_null
    \/ pc \in {"ss_entry", "wfs_entry"} /\ (loc.str_null \/ Len(loc.str) = 0)
    \/ pc = "cu_entry" /\ (loc.str_null \/ Len(loc.str) = 0
                              \/ loc.buffer_null \/ loc.buffer_size = 0)
    \/ pc = "eb_entry" /\ (loc.start_null \/ Len(loc.start_str) = 0
                              \/ loc.str_null \/ Len(loc.str) = 0
                              \/ loc.source_null
                              \/ loc.buffer_null \/ loc.buffer_size = 0)

\* C12 (as claimed): the first step of a public function given a NULL or
\* zero-length argument returns INVALID_PARAM and changes neither ring, nor
\* the bytes consumed, nor the destination.
C12_InvalidParam ==
    [][(pc \in EntryPcs /\ BadArgs /\ pc' # pc)
         => /\ ret_val' = UART_ERROR_INVALID_PARAM
            /\ pc' = IF stack = <<>> THEN "idle" ELSE Head(stack)
            /\ UNCHANGED <<rx_buffer, tx_buffer, rx_read>>
            /\ loc'.buffer = loc.buffer]_vars

\* C13: as long as the bytes fed to the matcher, started at match_pos = 0,
\* are the first bytes of its pattern in order, match_pos is their number:
\* it reaches the pattern's length L (matched) with the L-th byte and is
\* below L after every earlier byte.
C13_ExactFeed ==
    (op = "match_pos" /\ IsPrefix(rx_read, loc.str))
        => /\ loc.match_pos = Len(rx_read)
           /\ (loc.match_pos = Len(loc.str)) <=> (rx_read = loc.str)

\* C13 witness: a pattern of MaxMatch characters, not all alike, was fed
\* whole and is matched.
C13_Witness ==
    /\ op = "match_pos" /\ rx_read = loc.str
    /\ Len(loc.str) = MaxMatch /\ loc.str[1] # loc.str[2]
    /\ loc.match_pos = MaxMatch

\* The lengths k for which the first k characters of p are the last k
\* elements of s.
Borders(p, s) ==
    {k \in 0 .. Len(p) : k <= Len(s) /\ SubSeq(p, 1, k) = SubSeq(s, Len(s) - k + 1, Len(s))}

\* The greatest element of a non-empty set of naturals.
Greatest(S) == CHOOSE i \in S : \A j \in S : j <= i

\* C14 (as claimed): after every byte, match_pos is the length of the
\* longest prefix of the pattern that is a suffix of the bytes consumed.
C14_LongestPrefix ==
    op = "match_pos" => loc.match_pos = Greatest(Borders(loc.str, rx_read))

\* C14 (amended): after every byte, match_pos is the length of a prefix of
\* the pattern that is a suffix of the bytes consumed, hence at most the
\* longest such; it is the longest one for every pattern of at most two
\* characters and for every pattern whose first character occurs nowhere
\* else in it.
C14_SomePrefix ==
    op = "match_pos" =>
        /\ loc.match_pos \in Borders(loc.str, rx_read)
        /\ (Len(loc.str) <= 2
             \/ \A k \in 2 .. Len(loc.str) : loc.str[k] # loc.str[1])
              => loc.match_pos = Greatest(Borders(loc.str, rx_read))

\* C14 witness: the pattern's first character repeated made the matcher
\* fall back to 1 while the last two bytes consumed are the pattern's first
\* two characters.
C14_Witness ==
    /\ op = "match_pos" /\ Len(loc.str) = 3
    /\ loc.str[1] = loc.str[2] /\ loc.str[3] # loc.str[1]
    /\ rx_read = <<loc.str[1], loc.str[1], loc.str[1]>>
    /\ loc.match_pos = 1

\* C15 (as claimed): when UART_CopyUntil, given a non-empty pattern, returns
\* TIMEOUT after consuming k bytes, the first k cells of the destination
\* hold those bytes in order and cell k holds the terminator.
C15_TimeoutTerminated ==
    (StreamStarted("UART_CopyUntil", "cu_entry") /\ pc = "idle"
       /\ Len(loc.str) > 0 /\ ret_val = UART_ERROR_TIMEOUT)
        => /\ loc.buffer_pos = Len(Consumed)
           /\ SubSeq(loc.buffer, 1, loc.buffer_pos) = Consumed
           /\ loc.buffer[loc.buffer_pos + 1] = 0

\* A step of the interrupt handler / of the foreground.
IsrStep == pc' = pc /\ (rx_in' # rx_in \/ tx_irq' # tx_irq)
FgStep == pc' # pc

\* C16: rx_buffer.head changes only in a step of the handler, or in
\* UART_FlushRX with interrupts masked; rx_buffer.tail changes only in the
\* last step of UART_ReadChar, or in UART_FlushRX with interrupts masked;
\* tx_buffer.head changes only in UART_WriteChar's publishing step and
\* tx_buffer.tail only in a step of the handler; and no handler runs while
\* UART_FlushRX has interrupts masked.
C16_SingleWriter ==
    /\ [][rx_buffer'.head # rx_buffer.head
             => \/ IsrStep /\ rx_in' = rx_in + 1
                \/ FgStep /\ pc = "fl_head" /\ primask]_vars
    /\ [][rx_buffer'.tail # rx_buffer.tail
             => \/ FgStep /\ pc = "rc_adv" /\ op # "UART_FlushRX"
                \/ FgStep /\ pc = "fl_tail" /\ primask]_vars
    /\ [][tx_buffer'.head # tx_buffer.head
             => FgStep /\ pc = "wc_pub"]_vars
    /\ [][tx_buffer'.tail # tx_buffer.tail
             => IsrStep /\ tx_irq' = tx_irq + 1]_vars
    /\ [][IsrStep => ~primask /\ pc \notin FlushPcs]_vars

\* C16 witness: every writer has acted: bytes were stored by the handler and
\* flushed, later ones read, and written bytes sent by the handler.
C16_Witness ==
    /\ pc = "idle"
    /\ rx_flushed > 0 /\ Len(rx_read) > 0
    /\ Len(tx_wire) > 0
    /\ rx_buffer.head # rx_buffer.tail /\ tx_buffer.head # tx_buffer.tail

\* (N + head - tail) mod N for a ring.
Unread(rb) == (UART_BUFFER_SIZE + rb.head - rb.tail) % UART_BUFFER_SIZE

\* C17: for both rings head and tail lie in 0 .. N-1 and (N + head - tail)
\* mod N is the number of bytes put in and not yet taken out (for the RX
\* ring outside the masked section of UART_FlushRX), which never exceeds
\* N-1; so the ring holds no byte iff head = tail and holds N-1 bytes iff
\* (head + 1) mod N = tail.
C17_RingInvariant ==
    LET rx_n == Len(rx_stored) - Len(rx_read)
        tx_n == Len(tx_enq) - Len(tx_wire)
    IN  /\ {rx_buffer.head, rx_buffer.tail, tx_buffer.head, tx_buffer.tail}
              \subseteq 0 .. (UART_BUFFER_SIZE - 1)
        /\ tx_n = Unread(tx_buffer) /\ tx_n \in 0 .. (UART_BUFFER_SIZE - 1)
        /\ (tx_n = 0) <=> (tx_buffer.head = tx_buffer.tail)
        /\ (tx_n = UART_BUFFER_SIZE - 1)
              <=> ((tx_buffer.head + 1) % UART_BUFFER_SIZE = tx_buffer.tail)
        /\ pc \notin FlushPcs =>
              /\ rx_n = Unread(rx_buffer)
              /\ rx_n \in 0 .. (UART_BUFFER_SIZE - 1)
              /\ (rx_n = 0) <=> (rx_buffer.head = rx_buffer.tail)
              /\ (rx_n = UART_BUFFER_SIZE - 1)
                    <=> ((rx_buffer.head + 1) % UART_BUFFER_SIZE
                            = rx_buffer.tail)

\* C17 witness: both rings are full at once, each wrapped around (head
\* below tail).
C17_Witness ==
    /\ Unread(rx_buffer) = UART_BUFFER_SIZE - 1
    /\ Unread(tx_buffer) = UART_BUFFER_SIZE - 1
    /\ rx_buffer.head < rx_buffer.tail
    /\ tx_buffer.head < tx_buffer.tail

\* C18 (as claimed): in a UART_WaitForString that has consumed bytes and is
\* left with match_pos = 0, a wait that finds the ring empty times out once
\* timeout_ms has elapsed since the last progress (the call's entry or the
\* last consumed byte that left match_pos > 0, recorded in loc.progress).
C18_ProgressDeadline ==
    (op = "UART_WaitForString" /\ pc = "wd_expired"
       /\ Len(Consumed) > 0 /\ loc.match_pos = 0
       /\ ((tick - loc.progress) % TickMod) >= loc.timeout_ms)
        => IsTimeOutExpired(loc.timeout_ms)

\* C19: whenever the TX ring is non-empty and the foreground is not between
\* publishing head and arming the interrupt, TXEIE is set; the handler
\* clears it only in a run that finds head = tail; and, the foreground and
\* the TX-ready interrupt going on, the k-th byte enqueued is eventually
\* written to TDR, for every k.
C19_NoLostWakeup ==
    /\ []((tx_buffer.head # tx_buffer.tail /\ pc # "wc_arm")
            => "TXEIE" \in cr1)
    /\ [][("TXEIE" \in cr1 /\ "TXEIE" \notin cr1')
             => (IsrStep /\ tx_buffer.head = tx_buffer.tail)]_vars
    /\ \A k \in 1 .. MaxTx : (Len(tx_enq) >= k) ~> (Len(tx_wire) >= k)

\* C19 witness: the interrupt was switched off on an empty ring, armed
\* again by a later UART_WriteChar, and every enqueued byte reached TDR.
C19_Witness ==
    /\ Len(tx_enq) = MaxTx /\ tx_wire = tx_enq
    /\ tx_irq >= MaxTx + 2
    /\ "TXEIE" \notin cr1 /\ pc = "idle"

\* C20: when UART_WaitForString has returned SUCCESS, the last L bytes it
\* took from the RX ring are the pattern, no shorter run of the bytes it
\* took had already completed the matcher (for a pattern of one or two
\* characters: the pattern occurs in them only at the very end), and the
\* bytes stored by the handler are the bytes read followed by the bytes
\* still in the ring, so that every byte stored after the completing one
\* is still unread.
C20_NoOverConsume ==
    (op = "UART_WaitForString" /\ pc = "idle" /\ ret_val = UART_SUCCESS) =>
        LET L == Len(loc.str)
        IN  /\ L > 0 /\ Len(Consumed) >= L
            /\ SubSeq(Consumed, Len(Consumed) - L + 1, Len(Consumed)) = loc.str
            /\ rx_read[Len(rx_read)] = loc.str[L]
            /\ L <= 2 => Occurrences(loc.str, Consumed) = {Len(Consumed) - L}
            /\ rx_stored = rx_read \o Pending(rx_buffer)
            /\ Len(Pending(rx_buffer)) = Len(rx_stored) - Len(rx_read)

\* C20 witness: SUCCESS for a two-character pattern while a byte stored after
\* it waits unread in the ring.
C20_Witness ==
    /\ op = "UART_WaitForString" /\ pc = "idle" /\ ret_val = UART_SUCCESS
    /\ Len(loc.str) = 2 /\ Consumed = loc.str
    /\ Len(Pending(rx_buffer)) = 1
    /\ rx_stored = Append(loc.str, loc.str[2])

====
